---------------------------- MODULE Spec2Model ----------------------------
(***************************************************************************)
(* A model of the flight booking assistant of CrewAIR_Agent.py: the chat   *)
(* turn (chat), the tool dispatcher (handle_tool_call), the catalog        *)
(* (get_ticket_price), the validator (validate_info) and the booking       *)
(* reference of book_flight.                                               *)
(*                                                                         *)
(* A Python str is a sequence of one-character strings, so that            *)
(* startswith, lower, title, split, "in" and concatenation are computed    *)
(* and not assumed.  Python's None is the value None below, which is no    *)
(* str.  The LLM backend is the environment: each of its calls returns a   *)
(* response drawn from a small set or raises.                              *)
(***************************************************************************)
EXTENDS Integers, Sequences, FiniteSets, TLC

VARIABLES
    history,        \* the caller's list of (user, assistant) pairs
    hashSalt,       \* the per-process seed of Python's str hash
    pc,             \* where the current chat call stands
    message,        \* chat's argument: the current user text
    messages,       \* chat's local list of messages
    response,       \* the first completion
    idx,            \* position of the for loop over tool_calls
    final_response, \* the second completion
    final_content,  \* chat's local final_content
    exc,            \* the exception being propagated, "none" if none
    ret,            \* the value chat returned
    sent,           \* log: the requests made to the backend in this call
    dispatched,     \* log: the handle_tool_call invocations of this call
    catalog,        \* the module-level dict TICKET_PRICES
    registry,       \* the module-level list tools
    args,           \* tool bench: the strings a tool is called with
    out             \* tool bench: log of the calls made and their results

vars == <<history, hashSalt, pc, message, messages, response, idx,
          final_response, final_content, exc, ret, sent, dispatched,
          catalog, registry, args, out>>

(***************************************************************************)
(* Bounds of the model.                                                    *)
(***************************************************************************)
\* The number of chat calls the caller makes in one conversation.
MaxTurns == 3
\* The largest number of tool-call requests in one completion.
MaxBatch == 2
\* The width of the model's str hash, in bits (CPython's is 64).
HashBits == 20

(***************************************************************************)
(* String literals of the source and of the inputs.                        *)
(***************************************************************************)
\* system_message: the system prompt, verbatim.
system_message ==
    <<"\n","Y","o","u"," ","a","r","e"," ","S","o","n","y","a",","," ","a"," ",
    "h","e","l","p","f","u","l"," ","f","l","i","g","h","t"," ","b","o","o",
    "k","i","n","g"," ","a","s","s","i","s","t","a","n","t","."," ","G","u",
    "i","d","e"," ","u","s","e","r","s"," ","t","h","r","o","u","g","h"," ",
    "t","h","e"," ","b","o","o","k","i","n","g"," ","p","r","o","c","e","s",
    "s"," ","n","a","t","u","r","a","l","l","y",".","\n","F","o","l","l","o",
    "w"," ","t","h","e","s","e"," ","s","t","e","p","s"," ","i","n"," ","o",
    "r","d","e","r",":","\n","1","."," ","F","o","r"," ","p","r","i","c","e",
    " ","i","n","q","u","i","r","i","e","s",","," ","u","s","e"," ","g","e",
    "t","_","t","i","c","k","e","t","_","p","r","i","c","e"," ","t","o"," ",
    "p","r","o","v","i","d","e"," ","a","c","c","u","r","a","t","e"," ","p",
    "r","i","c","i","n","g","\n","2","."," ","F","o","r"," ","v","a","l","i",
    "d","a","t","i","n","g"," ","u","s","e","r"," ","i","n","f","o",","," ",
    "u","s","e"," ","v","a","l","i","d","a","t","e","_","i","n","f","o"," ",
    "t","o"," ","e","n","s","u","r","e"," ","d","a","t","a"," ","q","u","a",
    "l","i","t","y","\n","3","."," ","F","o","r"," ","b","o","o","k","i","n",
    "g"," ","f","l","i","g","h","t","s",","," ","u","s","e"," ","b","o","o",
    "k","_","f","l","i","g","h","t"," ","a","f","t","e","r"," ","a","l","l",
    " ","v","a","l","i","d","a","t","i","o","n","s"," ","p","a","s","s","\n",
    "M","a","i","n","t","a","i","n"," ","a"," ","f","r","i","e","n","d","l",
    "y"," ","a","n","d"," ","h","e","l","p","f","u","l"," ","t","o","n","e",
    " ","t","h","r","o","u","g","h","o","u","t"," ","t","h","e"," ","c","o",
    "n","v","e","r","s","a","t","i","o","n",".","\n","H","a","n","d","l","e",
    " ","u","s","e","r"," ","f","r","u","s","t","r","a","t","i","o","n"," ",
    "p","r","o","f","e","s","s","i","o","n","a","l","l","y"," ","a","n","d",
    " ","o","f","f","e","r"," ","c","l","e","a","r"," ","s","o","l","u","t",
    "i","o","n","s",".","\n">>

\* The literal tested by final_content.startswith("Sonya:").
PersonaPrefix == <<"S","o","n","y","a",":">>

\* The literal part of f"Sonya: {final_content}".
PersonaLead == <<"S","o","n","y","a",":"," ">>

\* The string returned by the except branch of chat.
ApologyText ==
    <<"S","o","n","y","a",":"," ","I"," ","a","p","o","l","o","g","i","z","e",
    ","," ","b","u","t"," ","I"," ","e","n","c","o","u","n","t","e","r","e",
    "d"," ","a","n"," ","e","r","r","o","r","."," ","P","l","e","a","s","e",
    " ","t","r","y"," ","a","g","a","i","n",".">>

K_london == <<"l","o","n","d","o","n">>

K_paris == <<"p","a","r","i","s">>

K_tokyo == <<"t","o","k","y","o">>

K_rome == <<"r","o","m","e">>

P_799 == <<"$","7","9","9">>

P_899 == <<"$","8","9","9">>

P_1400 == <<"$","1","4","0","0">>

P_929 == <<"$","9","2","9">>

PriceNotAvailable ==
    <<"P","r","i","c","e"," ","n","o","t"," ","a","v","a","i","l","a","b","l",
    "e">>

LowerLetters ==
    <<"a","b","c","d","e","f","g","h","i","j","k","l","m","n","o","p","q","r",
    "s","t","u","v","w","x","y","z">>

UpperLetters ==
    <<"A","B","C","D","E","F","G","H","I","J","K","L","M","N","O","P","Q","R",
    "S","T","U","V","W","X","Y","Z">>

Digits == <<"0","1","2","3","4","5","6","7","8","9">>

\* The ASCII characters of codes 32..95, in code order.
PrintableLow ==
    <<" ","!","\"","#","$","%","&","'","(",")","*","+",",","-",".","/","0","1",
    "2","3","4","5","6","7","8","9",":",";","<","=",">","?","@","A","B","C",
    "D","E","F","G","H","I","J","K","L","M","N","O","P","Q","R","S","T","U",
    "V","W","X","Y","Z","[","\\","]","^","_">>

\* The ASCII characters of codes 97..126, in code order.
PrintableHigh ==
    <<"a","b","c","d","e","f","g","h","i","j","k","l","m","n","o","p","q","r",
    "s","t","u","v","w","x","y","z","{","|","}","~">>

SimPrefix == <<"S","I","M","-">>

\* str(None), as an f-string renders it.
NoneText == <<"N","o","n","e">>

BookingHead ==
    <<"S","I","M","U","L","A","T","I","O","N"," ","-"," ","B","o","o","k","i",
    "n","g"," ","C","o","n","f","i","r","m","e","d","!","\n","D","e","s","t",
    "i","n","a","t","i","o","n",":"," ">>

BookingPassenger == <<"\n","P","a","s","s","e","n","g","e","r",":"," ">>

BookingEmail == <<"\n","E","m","a","i","l",":"," ">>

BookingPrice == <<"\n","P","r","i","c","e",":"," ">>

BookingRef ==
    <<"\n","B","o","o","k","i","n","g"," ","R","e","f","e","r","e","n","c","e",
    ":"," ">>

J_true == <<"t","r","u","e">>

J_false == <<"f","a","l","s","e">>

J_open_city ==
    <<"{","\"","d","e","s","t","i","n","a","t","i","o","n","_","c","i","t","y",
    "\"",":"," ">>

J_price == <<","," ","\"","p","r","i","c","e","\"",":"," ">>

J_close == <<"}">>

J_open_name_valid ==
    <<"{","\"","n","a","m","e","_","v","a","l","i","d","\"",":"," ">>

J_email_valid ==
    <<","," ","\"","e","m","a","i","l","_","v","a","l","i","d","\"",":"," ">>

J_all_valid ==
    <<","," ","\"","a","l","l","_","v","a","l","i","d","\"",":"," ">>

J_open_success ==
    <<"{","\"","s","u","c","c","e","s","s","\"",":"," ","t","r","u","e",","," ",
    "\"","b","o","o","k","i","n","g","_","r","e","f","e","r","e","n","c","e",
    "\"",":"," ">>

J_message == <<","," ","\"","m","e","s","s","a","g","e","\"",":"," ">>

T_Paris == <<"P","a","r","i","s">>

T_oz == <<"o","z">>

T_Al == <<"A","l">>

T_nomail == <<"a","b">>

T_hi == <<"h","i">>

T_Sonya == <<"S","o","n","y","a">>

T_SonyaSonya == <<"S","o","n","y","a",":"," ","S","o","n","y","a">>

T_RoMe == <<"R","o","M","e">>

\* The opening of a payload that reports a refused booking.
J_open_failure ==
    <<"{","\"","s","u","c","c","e","s","s","\"",":"," ","f","a","l","s","e">>

(***************************************************************************)
(* Python values and str methods.                                          *)
(***************************************************************************)
\* Python's None: a value that is no str (no str holds a 6-character item).
None == <<"<None>">>

IsStr(v) == v # None

\* s.startswith(p)
StartsWith(s, p) == Len(s) >= Len(p) /\ SubSeq(s, 1, Len(p)) = p

\* c in s, for a one-character c
Contains(s, c) == \E i \in 1..Len(s) : s[i] = c

IsUpper(c) == \E i \in 1..Len(UpperLetters) : UpperLetters[i] = c

IsLower(c) == \E i \in 1..Len(LowerLetters) : LowerLetters[i] = c

IsCased(c) == IsUpper(c) \/ IsLower(c)

LowerChar(c) ==
    IF IsUpper(c)
    THEN LowerLetters[CHOOSE i \in 1..Len(UpperLetters) : UpperLetters[i] = c]
    ELSE c

UpperChar(c) ==
    IF IsLower(c)
    THEN UpperLetters[CHOOSE i \in 1..Len(LowerLetters) : LowerLetters[i] = c]
    ELSE c

\* s.lower()
Lower(s) == [i \in 1..Len(s) |-> LowerChar(s[i])]

\* s.title(): a cased character is upper-cased when it follows an uncased
\* one (or starts the string) and lower-cased otherwise.
Title(s) ==
    [i \in 1..Len(s) |->
        IF i > 1 /\ IsCased(s[i - 1]) THEN LowerChar(s[i]) ELSE UpperChar(s[i])]

IsSpace(c) == c \in {" ", "\n", "\t", "\r"}

\* s.split(): the maximal runs of non-whitespace characters, in order
\* (leading and trailing whitespace yields no empty token, so that
\* s.strip().split() = s.split()).
RECURSIVE SplitFrom(_, _, _)
SplitFrom(s, i, cur) ==
    IF i > Len(s)
    THEN IF cur = << >> THEN << >> ELSE <<cur>>
    ELSE IF IsSpace(s[i])
         THEN IF cur = << >>
              THEN SplitFrom(s, i + 1, << >>)
              ELSE <<cur>> \o SplitFrom(s, i + 1, << >>)
         ELSE SplitFrom(s, i + 1, Append(cur, s[i]))

\* s.strip()
RECURSIVE Strip(_)
Strip(s) ==
    IF s = << >> THEN s
    ELSE IF IsSpace(s[1]) THEN Strip(Tail(s))
    ELSE IF IsSpace(s[Len(s)]) THEN Strip(SubSeq(s, 1, Len(s) - 1))
    ELSE s

Split(s) == SplitFrom(s, 1, << >>)

\* f"{v}": a str as it is, None as the text None
Fmt(v) == IF v = None THEN NoneText ELSE v

\* abs(n)
Abs(n) == IF n < 0 THEN -n ELSE n

\* f"{n:05d}" for 0 <= n < 100000
Format05d(n) ==
    <<Digits[((n \div 10000) % 10) + 1], Digits[((n \div 1000) % 10) + 1],
      Digits[((n \div 100) % 10) + 1], Digits[((n \div 10) % 10) + 1],
      Digits[(n % 10) + 1]>>

\* ord(c) for the ASCII characters the model's strings are made of
Ord(c) ==
    IF \E i \in 1..Len(PrintableLow) : PrintableLow[i] = c
    THEN 31 + (CHOOSE i \in 1..Len(PrintableLow) : PrintableLow[i] = c)
    ELSE IF \E i \in 1..Len(PrintableHigh) : PrintableHigh[i] = c
    THEN 96 + (CHOOSE i \in 1..Len(PrintableHigh) : PrintableHigh[i] = c)
    ELSE 10

HashModulus == 2 ^ HashBits

\* hash(s) for a str: a seeded hash over the characters, read as a signed
\* integer of HashBits bits.  CPython's is SipHash seeded once per process;
\* what the model keeps is that the value depends on the seed and on every
\* character, and that it may be negative.
RECURSIVE HashFold(_, _, _)
HashFold(s, i, h) ==
    IF i > Len(s) THEN h
    ELSE HashFold(s, i + 1, (h * 31 + Ord(s[i])) % HashModulus)

PyHash(salt, s) ==
    LET u == HashFold(s, 1, (salt * 7919) % HashModulus)
    IN  IF u >= HashModulus \div 2 THEN u - HashModulus ELSE u

\* json.dumps(s) for a str: quoted, with the quote, the backslash and the
\* control characters escaped.
EscapeChar(c) ==
    CASE c = "\"" -> <<"\\", "\"">>
      [] c = "\\" -> <<"\\", "\\">>
      [] c = "\n" -> <<"\\", "n">>
      [] c = "\t" -> <<"\\", "t">>
      [] c = "\r" -> <<"\\", "r">>
      [] OTHER -> <<c>>

\* The escapes of the characters of s, joined in order (by halves).
RECURSIVE JsonEscape(_)
JsonEscape(s) ==
    IF s = << >> THEN << >>
    ELSE IF Len(s) = 1 THEN EscapeChar(s[1])
    ELSE LET half == Len(s) \div 2
         IN  JsonEscape(SubSeq(s, 1, half))
                 \o JsonEscape(SubSeq(s, half + 1, Len(s)))

JsonStr(s) == <<"\"">> \o JsonEscape(s) \o <<"\"">>

\* json.dumps(b) for a bool
JsonBool(b) == IF b THEN J_true ELSE J_false

(***************************************************************************)
(* The catalog, the validator and the tool registry.                       *)
(***************************************************************************)
MODEL == "gpt-4o-mini"

\* TICKET_PRICES: the dict, as its (key, value) items.
TICKET_PRICES ==
    {<<K_london, P_799>>, <<K_paris, P_899>>, <<K_tokyo, P_1400>>,
     <<K_rome, P_929>>}

\* d.get(k, default) for a dict given as its items
DictGet(d, k, default) ==
    IF \E kv \in d : kv[1] = k
    THEN (CHOOSE kv \in d : kv[1] = k)[2]
    ELSE default

\* The names of the three tool definitions, in the order of the tools list.
tools == <<"get_ticket_price", "book_flight", "validate_info">>

\* The "required" list of each tool definition.
RequiredParams(name) ==
    CASE name = "get_ticket_price" -> {"destination_city"}
      [] name = "book_flight" ->
            {"destination_city", "passenger_name", "email"}
      [] name = "validate_info" -> {"passenger_name", "email"}
      [] OTHER -> {}

\* What a Python call comes to: a value returned or an exception raised.
Returned(v) == [raised |-> "none", value |-> v]

Raised(e) == [raised |-> e, value |-> None]

\* A lookup written with setdefault: a missing key is stored.
CatalogAfterSetdefault(d, k) ==
    IF \E kv \in d : kv[1] = k THEN d ELSE d \cup {<<k, PriceNotAvailable>>}

\* A lookup written with pop: the key found is removed.
CatalogAfterPop(d, k) == {kv \in d : kv[1] # k}

\* The dict after d.get(k, default): as it was.
CatalogAfterGet(d, k) == d

\* A lookup that skips city.lower(): the key is the city as given.
get_ticket_price_exact(city) ==
    IF ~IsStr(city) THEN Raised("AttributeError")
    ELSE Returned(DictGet(catalog, city, PriceNotAvailable))

\* get_ticket_price(city): city.lower() fails on a value that is no str.
get_ticket_price(city) ==
    IF ~IsStr(city) THEN Raised("AttributeError")
    ELSE Returned(DictGet(catalog, Lower(city), PriceNotAvailable))

\* A validation whose all_valid is true as soon as one of the two checks is.
validate_info_any(name, email) ==
    IF ~IsStr(name) THEN Raised("AttributeError")
    ELSE IF ~IsStr(email) THEN Raised("TypeError")
    ELSE LET name_valid == Len(Split(Strip(name))) >= 2
             email_valid == Contains(email, "@") /\ Contains(email, ".")
         IN  Returned([name_valid |-> name_valid,
                       email_valid |-> email_valid,
                       all_valid |-> name_valid \/ email_valid])

\* validate_info(name, email): name.strip() fails on None, and so does
\* '@' in email; the name is evaluated first.
validate_info(name, email) ==
    IF ~IsStr(name) THEN Raised("AttributeError")
    ELSE IF ~IsStr(email) THEN Raised("TypeError")
    ELSE LET name_valid == Len(Split(Strip(name))) >= 2
             email_valid == Contains(email, "@") /\ Contains(email, ".")
         IN  Returned([name_valid |-> name_valid,
                       email_valid |-> email_valid,
                       all_valid |-> name_valid /\ email_valid])

(***************************************************************************)
(* The dispatcher.                                                         *)
(*                                                                         *)
(* A tool-call request is [id, name, arguments]; arguments stands for the  *)
(* JSON text by what json.loads makes of it: [kind, value] with kind       *)
(* "undecodable" (json.loads raises), "array" (a JSON value that is no     *)
(* object) or "object" (value: the dict, a function from its keys).        *)
(***************************************************************************)
Undecodable == [kind |-> "undecodable", value |-> << >>]

JsonObject(d) == [kind |-> "object", value |-> d]

\* A json.loads wrapped so that undecodable text reads as {}.
json_loads_lenient(text) ==
    IF text.kind = "undecodable" THEN [raised |-> "none",
                                       value |-> JsonObject(<< >>)]
    ELSE [raised |-> "none", value |-> text]

\* json.loads(text): the decoded value, or JSONDecodeError.
json_loads(text) ==
    IF text.kind = "undecodable" THEN Raised("JSONDecodeError")
    ELSE Returned(text)

\* arguments.get(k) on a decoded dict
ArgGet(arguments, k) ==
    IF k \in DOMAIN arguments THEN arguments[k] ELSE None

\* The None that handle_tool_call returns in place of a message: a record,
\* as the messages are, that is no message.
NoResponseData == [none |-> TRUE]

\* The tool-result message built in each branch of handle_tool_call.
ToolMessage(content, tool_call, function_name) ==
    [role |-> "tool", content |-> content, tool_call_id |-> tool_call.id,
     name |-> function_name]

\* A price payload that reports the city as the lookup normalised it.
PricePayloadNormalised(city, price) ==
    J_open_city \o JsonStr(Lower(city)) \o J_price \o JsonStr(price)
        \o J_close

\* json.dumps({"destination_city": city, "price": price})
PricePayload(city, price) ==
    J_open_city \o JsonStr(city) \o J_price \o JsonStr(price) \o J_close

\* json.dumps(validation_result)
ValidationPayload(v) ==
    J_open_name_valid \o JsonBool(v.name_valid) \o J_email_valid
        \o JsonBool(v.email_valid) \o J_all_valid \o JsonBool(v.all_valid)
        \o J_close

\* A reference whose hash is seeded anew at every dispatch instead of once
\* per process.
BookingReferencePerCall(salt, city, name, email) ==
    SimPrefix \o
    Format05d(Abs(PyHash(salt + Len(out),
                         Fmt(city) \o Fmt(name) \o Fmt(email))) % 100000)

\* f"SIM-{abs(hash(f'{city}{name}{email}')) % 100000:05d}"
BookingReference(salt, city, name, email) ==
    SimPrefix \o
    Format05d(Abs(PyHash(salt, Fmt(city) \o Fmt(name) \o Fmt(email))) % 100000)

\* The f-string of the confirmation message, given the title-cased city
\* and the price.
BookingMessage(titled, name, email, price, booking_ref) ==
    BookingHead \o titled \o BookingPassenger \o Fmt(name) \o BookingEmail
        \o Fmt(email) \o BookingPrice \o price \o BookingRef \o booking_ref

\* json.dumps({"success": True, "booking_reference": ..., "message": ...})
BookingPayload(booking_ref, text) ==
    J_open_success \o JsonStr(booking_ref) \o J_message \o JsonStr(text)
        \o J_close

\* tool_call = message.tool_calls[0]: the request handle_tool_call reads,
\* whichever request the caller's loop is at.
DispatchTargetLast(assistant_message) ==
    assistant_message.tool_calls[Len(assistant_message.tool_calls)]

DispatchTarget(assistant_message) ==
    assistant_message.tool_calls[1]

\* The book_flight branch with a validation gate in front of it: a booking
\* whose details fail validate_info is answered with success false.
BookFlightValidated(tool_call, function_name, city, name, email, salt) ==
    LET booking_ref == BookingReference(salt, city, name, email)
        price == get_ticket_price(city)
        validation_result == validate_info(name, email)
    IN  IF ~IsStr(city) THEN Raised("AttributeError")
        ELSE IF \/ validation_result.raised # "none"
                \/ ~validation_result.value.all_valid
                \/ price.value = PriceNotAvailable
        THEN Returned(<<ToolMessage(J_open_failure \o J_close,
                                    tool_call, function_name), city>>)
        ELSE Returned(
               <<ToolMessage(
                   BookingPayload(booking_ref,
                       BookingMessage(Title(city), name, email,
                                      price.value, booking_ref)),
                   tool_call, function_name),
                 city>>)

\* The body of the book_flight branch, after the three arguments.get():
\* no validation, no catalog membership test.
BookFlight(tool_call, function_name, city, name, email, salt) ==
    LET booking_ref == BookingReference(salt, city, name, email)
        price == get_ticket_price(city)
    IN  \* city.title() fails on None before get_ticket_price runs
        IF ~IsStr(city) THEN Raised("AttributeError")
        ELSE Returned(
               <<ToolMessage(
                   BookingPayload(booking_ref,
                       BookingMessage(Title(city), name, email,
                                      price.value, booking_ref)),
                   tool_call, function_name),
                 city>>)

\* handle_tool_call(message), called with the assistant message: what it
\* returns is the pair <<response_data, city>>.
handle_tool_call(assistant_message, salt) ==
    LET tool_call == DispatchTarget(assistant_message)
        function_name == tool_call.name
        loaded == json_loads(tool_call.arguments)
        decoded == loaded.value
        arguments == decoded.value
    IN
    IF loaded.raised # "none" THEN loaded
    ELSE IF function_name = "get_ticket_price" THEN
        IF decoded.kind # "object" THEN Raised("AttributeError")
        ELSE LET city == ArgGet(arguments, "destination_city")
                 price == get_ticket_price(city)
             IN  IF price.raised # "none" THEN price
                 ELSE Returned(<<ToolMessage(PricePayload(city, price.value),
                                             tool_call, function_name),
                                 city>>)
    ELSE IF function_name = "validate_info" THEN
        IF decoded.kind # "object" THEN Raised("AttributeError")
        ELSE LET name == ArgGet(arguments, "passenger_name")
                 email == ArgGet(arguments, "email")
                 validation_result == validate_info(name, email)
             IN  IF validation_result.raised # "none" THEN validation_result
                 ELSE Returned(
                        <<ToolMessage(ValidationPayload(validation_result.value),
                                      tool_call, function_name),
                          None>>)
    ELSE IF function_name = "book_flight" THEN
        IF decoded.kind # "object" THEN Raised("AttributeError")
        ELSE BookFlight(tool_call, function_name,
                        ArgGet(arguments, "destination_city"),
                        ArgGet(arguments, "passenger_name"),
                        ArgGet(arguments, "email"), salt)
    ELSE Returned(<<NoResponseData, None>>)

\* The catalog after handle_tool_call(message) ran: get_ticket_price is
\* reached by the get_ticket_price branch and, for a str city, by the
\* book_flight branch.
CatalogAfterCall(assistant_message) ==
    LET tool_call == DispatchTarget(assistant_message)
        loaded == json_loads(tool_call.arguments)
        city == ArgGet(loaded.value.value, "destination_city")
    IN  IF /\ loaded.raised = "none"
           /\ loaded.value.kind = "object"
           /\ tool_call.name \in {"get_ticket_price", "book_flight"}
           /\ IsStr(city)
        THEN CatalogAfterGet(catalog, Lower(city))
        ELSE catalog

(***************************************************************************)
(* The inputs: what the user types and what the backend answers.           *)
(***************************************************************************)
UserTexts == {T_hi}

\* The texts a completion may carry; None is a completion without content.
ModelTexts == {T_Sonya, T_SonyaSonya}

\* The seeds the process may have drawn for str hashing.
HashSalts == {1, 2}

A_empty == JsonObject(<< >>)

A_city == JsonObject("destination_city" :> T_Paris)

A_all ==
    JsonObject("destination_city" :> T_oz @@ "passenger_name" :> T_Al
                   @@ "email" :> T_nomail)

\* The requests the backend may issue, as <<tool name, arguments>>: every
\* tool with {} (all parameters missing) and with all three parameters
\* (a city the catalog lacks, a one-word name, an email without "@"), the
\* city alone, undecodable arguments, and a tool the registry lacks.
RequestKinds ==
    {<<"get_ticket_price", Undecodable>>, <<"get_ticket_price", A_empty>>,
     <<"get_ticket_price", A_city>>, <<"get_ticket_price", A_all>>,
     <<"validate_info", A_empty>>, <<"validate_info", A_all>>,
     <<"book_flight", A_empty>>, <<"book_flight", A_city>>,
     <<"book_flight", A_all>>,
     <<"cancel_flight", Undecodable>>, <<"cancel_flight", A_empty>>,
     <<"cancel_flight", A_all>>}

\* The i-th request of the completion of turn t; the backend gives every
\* request an id of its own.
Request(t, i, name, arguments) ==
    [id |-> <<t, i>>, name |-> name, arguments |-> arguments]

\* The batches of 1..MaxBatch requests a completion of turn t may carry.
Batches(t) ==
    UNION {
      {[i \in 1..n |-> Request(t, i, b[i][1], b[i][2])] :
          b \in [1..n -> RequestKinds]} : n \in 1..MaxBatch}

\* A completion: create() raises ("raise"), or returns a response without
\* choices ("empty"), or one whose first choice is the assistant message
\* [content, tool_calls].
Completion(kind, content, tool_calls) ==
    [kind |-> kind, content |-> content, tool_calls |-> tool_calls]

NoCompletion == Completion("none", None, << >>)

FirstCompletions(t) ==
    {Completion("raise", None, << >>), Completion("empty", None, << >>)}
    \cup {Completion("ok", c, << >>) : c \in ModelTexts \cup {None}}
    \cup {Completion("ok", None, b) : b \in Batches(t)}

\* The second completion may itself carry a tool-call request.
SecondCompletions(t) ==
    {Completion("raise", None, << >>), Completion("empty", None, << >>)}
    \cup {Completion("ok", c, << >>) : c \in ModelTexts \cup {None}}
    \cup {Completion("ok", T_Sonya,
                     <<Request(t, MaxBatch + 1, "get_ticket_price",
                               A_city)>>)}

(***************************************************************************)
(* chat(message, history)                                                  *)
(***************************************************************************)
UserMessage(text) == [role |-> "user", content |-> text]

AssistantMessage(text) == [role |-> "assistant", content |-> text]

\* A replay that gives every assistant message of the history a tool_calls
\* field.
RECURSIVE FlattenHistoryWithCalls(_)
FlattenHistoryWithCalls(h) ==
    IF h = << >> THEN << >>
    ELSE <<UserMessage(h[1][1]),
           [role |-> "assistant", content |-> h[1][2], tool_calls |-> << >>]>>
             \o FlattenHistoryWithCalls(Tail(h))

\* The loop over history: one user and one assistant message per turn.
RECURSIVE FlattenHistory(_)
FlattenHistory(h) ==
    IF h = << >> THEN << >>
    ELSE <<UserMessage(h[1][1]), AssistantMessage(h[1][2])>>
             \o FlattenHistory(Tail(h))

\* A list with the current user message put before the history.
BuildMessagesCurrentFirst(h, text) ==
    <<[role |-> "system", content |-> system_message]>>
        \o <<UserMessage(text)>> \o FlattenHistory(h)

\* The message list chat builds before the first call.
BuildMessages(h, text) ==
    <<[role |-> "system", content |-> system_message]>>
        \o FlattenHistory(h) \o <<UserMessage(text)>>

\* The assistant message appended when the completion carries tool calls.
ToolCallMessage(assistant_message) ==
    [role |-> "assistant", content |-> assistant_message.content,
     tool_calls |-> assistant_message.tool_calls]

\* A test that takes the tool path whatever the completion carries.
HasToolCallsAlways(assistant_message) == TRUE

\* if response.choices[0].message.tool_calls: None and [] are both false.
HasToolCalls(assistant_message) == assistant_message.tool_calls # << >>

\* The requests the for loop runs over.
LoopCalls(assistant_message) == assistant_message.tool_calls

\* The classes of the exceptions a turn can raise; all derive from Exception.
ExceptionClasses ==
    {"APIError", "IndexError", "JSONDecodeError", "AttributeError",
     "TypeError"}

\* A handler narrowed to the backend's own errors.
CatchesOnlyAPIError(e) == e = "APIError"

\* except Exception: the classes the handler of chat catches.
Catches(e) == e \in ExceptionClasses

\* A prefix step that returns the text as it is.
PrefixedNever(content) ==
    IF ~IsStr(content) THEN Raised("AttributeError")
    ELSE Returned(content)

\* A prefix step that adds the prefix without looking.
PrefixedAlways(content) ==
    IF ~IsStr(content) THEN Raised("AttributeError")
    ELSE Returned(PersonaLead \o content)

\* A prefix step that formats whatever it is given, None included.
PrefixedFormatsNone(content) ==
    IF ~IsStr(content) THEN Returned(PersonaLead \o Fmt(content))
    ELSE IF ~StartsWith(content, PersonaPrefix)
         THEN Returned(PersonaLead \o content)
         ELSE Returned(content)

\* The prefix step: final_content.startswith fails on None.
Prefixed(content) ==
    IF ~IsStr(content) THEN Raised("AttributeError")
    ELSE IF ~StartsWith(content, PersonaPrefix)
         THEN Returned(PersonaLead \o content)
         ELSE Returned(content)

\* The keyword arguments of a completions.create call.
FirstRequest(msgs) ==
    [model |-> MODEL, messages |-> msgs, tools |-> registry,
     tool_choice |-> "auto"]

\* A second call that offers the tools again.
SecondRequestWithTools(msgs) ==
    [model |-> MODEL, messages |-> msgs, tools |-> registry,
     tool_choice |-> "auto"]

SecondRequest(msgs) ==
    [model |-> MODEL, messages |-> msgs, tools |-> << >>,
     tool_choice |-> "unset"]

Turn == Len(history) + 1

\* The tool bench at rest: no strings, nothing called.
NoArgs == [city |-> << >>, name |-> << >>, email |-> << >>]

Constructed ==
    /\ history = << >>
    /\ hashSalt \in HashSalts
    /\ pc = "idle"
    /\ message = None
    /\ messages = << >>
    /\ response = NoCompletion
    /\ idx = 0
    /\ final_response = NoCompletion
    /\ final_content = None
    /\ exc = "none"
    /\ ret = None
    /\ sent = << >>
    /\ dispatched = << >>
    /\ catalog = TICKET_PRICES
    /\ registry = tools
    /\ out = << >>

Init ==
    /\ Constructed
    /\ args = NoArgs

\* The transport calls chat(message, history): the list is built.
ChatCall ==
    /\ UNCHANGED <<catalog, registry, args, out>>
    /\ pc = "idle"
    /\ Len(history) < MaxTurns
    /\ \E text \in UserTexts :
        /\ message' = text
        /\ messages' = BuildMessages(history, text)
    /\ pc' = "awaiting_model"
    /\ UNCHANGED <<history, hashSalt, response, idx, final_response,
                   final_content, exc, ret, sent, dispatched>>

\* The first completions.create call and the branch on its tool_calls.
FirstCompletion ==
    /\ UNCHANGED <<catalog, registry, args, out>>
    /\ pc = "awaiting_model"
    /\ sent' = Append(sent, FirstRequest(messages))
    /\ \E c \in FirstCompletions(Turn) :
        /\ response' = c
        /\ IF c.kind = "raise"
           THEN /\ exc' = "APIError"
                /\ pc' = "except"
                /\ UNCHANGED <<messages, idx, final_content>>
           ELSE IF c.kind = "empty"
           THEN /\ exc' = "IndexError"
                /\ pc' = "except"
                /\ UNCHANGED <<messages, idx, final_content>>
           ELSE IF HasToolCalls(c)
           THEN /\ messages' = Append(messages, ToolCallMessage(c))
                /\ idx' = 1
                /\ pc' = "resolving_tools"
                /\ UNCHANGED <<exc, final_content>>
           ELSE /\ final_content' = c.content
                /\ pc' = "responding"
                /\ UNCHANGED <<messages, idx, exc>>
    /\ UNCHANGED <<history, hashSalt, message, final_response, ret,
                   dispatched>>

\* One iteration of the for loop: handle_tool_call(assistant_message), and
\* the append of its response_data when there is one.
ResolveTool ==
    /\ pc = "resolving_tools"
    /\ idx <= Len(LoopCalls(response))
    /\ LET tool_call == LoopCalls(response)[idx]
           result == handle_tool_call(response, hashSalt)
       IN  IF result.raised # "none"
           THEN /\ exc' = result.raised
                /\ pc' = "except"
                /\ dispatched' = Append(dispatched,
                        [tool_call |-> tool_call, raised |-> result.raised,
                         response_data |-> NoResponseData, city |-> None])
                /\ UNCHANGED <<messages, idx>>
           ELSE /\ messages' = IF result.value[1] # NoResponseData
                               THEN Append(messages, result.value[1])
                               ELSE messages
                /\ idx' = idx + 1
                /\ dispatched' = Append(dispatched,
                        [tool_call |-> tool_call, raised |-> "none",
                         response_data |-> result.value[1],
                         city |-> result.value[2]])
                /\ UNCHANGED <<exc, pc>>
    /\ catalog' = CatalogAfterCall(response)
    /\ UNCHANGED <<registry, args, out>>
    /\ UNCHANGED <<history, hashSalt, message, response, final_response,
                   final_content, ret, sent>>

\* The second completions.create call, without tools, and the read of its
\* content.
FinalCompletion ==
    /\ UNCHANGED <<catalog, registry, args, out>>
    /\ pc = "resolving_tools"
    /\ idx > Len(LoopCalls(response))
    /\ sent' = Append(sent, SecondRequest(messages))
    /\ \E c \in SecondCompletions(Turn) :
        /\ final_response' = c
        /\ IF c.kind = "raise"
           THEN /\ exc' = "APIError"
                /\ pc' = "except"
                /\ UNCHANGED final_content
           ELSE IF c.kind = "empty"
           THEN /\ exc' = "IndexError"
                /\ pc' = "except"
                /\ UNCHANGED final_content
           ELSE /\ final_content' = c.content
                /\ pc' = "responding"
                /\ UNCHANGED exc
    /\ UNCHANGED <<history, hashSalt, message, messages, response, idx, ret,
                   dispatched>>

\* The prefix and the return.
Respond ==
    /\ UNCHANGED <<catalog, registry, args, out>>
    /\ pc = "responding"
    /\ LET r == Prefixed(final_content)
       IN  IF r.raised # "none"
           THEN /\ exc' = r.raised
                /\ pc' = "except"
                /\ UNCHANGED ret
           ELSE /\ ret' = r.value
                /\ pc' = "done"
                /\ UNCHANGED exc
    /\ UNCHANGED <<history, hashSalt, message, messages, response, idx,
                   final_response, final_content, sent, dispatched>>

\* The except branch: the fixed text is returned; an exception the handler
\* does not catch leaves chat.
Except ==
    /\ UNCHANGED <<catalog, registry, args, out>>
    /\ pc = "except"
    /\ IF Catches(exc)
       THEN /\ ret' = ApologyText
            /\ pc' = "done"
       ELSE /\ pc' = "escaped"
            /\ UNCHANGED ret
    /\ UNCHANGED <<history, hashSalt, message, messages, response, idx,
                   final_response, final_content, exc, sent, dispatched>>

\* The transport shows the reply and keeps the turn in its history; the
\* locals of the call are gone.
TransportAppend ==
    /\ UNCHANGED <<catalog, registry, args, out>>
    /\ pc = "done"
    /\ history' = Append(history, <<message, ret>>)
    /\ pc' = "idle"
    /\ message' = None
    /\ messages' = << >>
    /\ response' = NoCompletion
    /\ idx' = 0
    /\ final_response' = NoCompletion
    /\ final_content' = None
    /\ exc' = "none"
    /\ ret' = None
    /\ sent' = << >>
    /\ dispatched' = << >>
    /\ UNCHANGED hashSalt

Next ==
    \/ ChatCall
    \/ FirstCompletion
    \/ ResolveTool
    \/ FinalCompletion
    \/ Respond
    \/ Except
    \/ TransportAppend

Spec == Init /\ [][Next]_vars

\* An iteration of the for loop, by what it does to the position of the
\* call: the loop moves to the next request, or the call moves to its except
\* branch.  Within Next this is a step of ResolveTool, and it can be taken
\* whenever the loop has a request left.
LoopIteration ==
    /\ pc = "resolving_tools"
    /\ idx <= Len(LoopCalls(response))
    /\ \/ idx' = idx + 1 /\ pc' = pc
       \/ idx' = idx /\ pc' = "except"

\* chat is straight-line code around one bounded for loop, and every
\* completions.create call returns or raises: each step of a call that has
\* begun is eventually taken.  When the user sends a message, and when the
\* transport takes the reply, is left open.
FairSpec ==
    /\ Spec
    /\ WF_vars(FirstCompletion)
    /\ WF_<<pc, idx>>(LoopIteration)
    /\ WF_vars(FinalCompletion)
    /\ WF_vars(Respond)
    /\ WF_vars(Except)

(***************************************************************************)
(* The tools on their own.                                                 *)
(*                                                                         *)
(* The three tools are functions of their str arguments, so they are also  *)
(* run outside a chat turn: the arguments of a request are built character *)
(* by character, then the request is handed to handle_tool_call.  out logs *)
(* each dispatch with what it returned; the chat variables stay as the     *)
(* constructor left them.                                                  *)
(***************************************************************************)
MaxNameLen == 3
MaxEmailLen == 2
MaxCityLen == 4
MaxBookings == 2

NameChars == {"a", " ", "\t"}
EmailChars == {"a", "@", "."}
CityChars == {"r", "R", "o", "O", "m", "M", "e", "E"}
BookingCities == {T_oz, T_Paris}
PriceCities == {<< >>, T_Paris}

chatLocals ==
    <<history, pc, message, messages, response, idx, final_response,
      final_content, exc, ret, sent, dispatched>>

\* The assistant message that carries one request for the tool, with the
\* arguments built so far.
ToolRequestMessage(function_name) ==
    [content |-> None,
     tool_calls |->
        <<[id |-> <<0, Len(out) + 1>>,
           name |-> function_name,
           arguments |->
               JsonObject([k \in RequiredParams(function_name) |->
                   IF k = "destination_city" THEN args.city
                   ELSE IF k = "passenger_name" THEN args.name
                   ELSE args.email])]>>]

Booked == {k \in 1..Len(out) : out[k].tool = "book_flight"}

ToolInitWith(cities) ==
    /\ Constructed
    /\ \E c \in cities : args = [NoArgs EXCEPT !.city = c]

TypeName ==
    /\ out = << >>
    /\ Len(args.name) < MaxNameLen
    /\ \E c \in NameChars : args' = [args EXCEPT !.name = Append(@, c)]
    /\ UNCHANGED <<chatLocals, hashSalt, catalog, registry, out>>

TypeEmail ==
    /\ out = << >>
    /\ Len(args.email) < MaxEmailLen
    /\ \E c \in EmailChars : args' = [args EXCEPT !.email = Append(@, c)]
    /\ UNCHANGED <<chatLocals, hashSalt, catalog, registry, out>>

TypeCity ==
    /\ out = << >>
    /\ Len(args.city) < MaxCityLen
    /\ \E c \in CityChars : args' = [args EXCEPT !.city = Append(@, c)]
    /\ UNCHANGED <<chatLocals, hashSalt, catalog, registry, out>>

\* handle_tool_call on a validate_info request; validate_info itself is
\* logged next to what the dispatcher made of it.
DispatchValidate ==
    /\ out = << >>
    /\ out' = <<[tool |-> "validate_info",
                 validation |-> validate_info(args.name, args.email),
                 response |->
                     handle_tool_call(ToolRequestMessage("validate_info"),
                                      hashSalt)]>>
    /\ catalog' = CatalogAfterCall(ToolRequestMessage("validate_info"))
    /\ UNCHANGED <<chatLocals, hashSalt, registry, args>>

\* handle_tool_call on a book_flight request.
DispatchBook ==
    /\ Cardinality(Booked) < MaxBookings
    /\ out' = Append(out,
                 [tool |-> "book_flight",
                  response |->
                      handle_tool_call(ToolRequestMessage("book_flight"),
                                       hashSalt)])
    /\ catalog' = CatalogAfterCall(ToolRequestMessage("book_flight"))
    /\ UNCHANGED <<chatLocals, hashSalt, registry, args>>

\* handle_tool_call on a get_ticket_price request; get_ticket_price itself
\* is logged next to what the dispatcher made of it.
DispatchPrice ==
    /\ out = << >>
    /\ out' = <<[tool |-> "get_ticket_price",
                 price |-> get_ticket_price(args.city),
                 response |->
                     handle_tool_call(ToolRequestMessage("get_ticket_price"),
                                      hashSalt)]>>
    /\ catalog' = CatalogAfterCall(ToolRequestMessage("get_ticket_price"))
    /\ UNCHANGED <<chatLocals, hashSalt, registry, args>>

BookingInit == ToolInitWith(BookingCities)

BookingNext ==
    \/ TypeName
    \/ TypeEmail
    \/ DispatchValidate
    \/ DispatchBook

BookingSpec == BookingInit /\ [][BookingNext]_vars

PriceInit == ToolInitWith(PriceCities)

PriceNext ==
    \/ TypeCity
    \/ DispatchPrice

PriceSpec == PriceInit /\ [][PriceNext]_vars


(***************************************************************************)
(* Properties of the chat turn.                                            *)
(***************************************************************************)
KnownTools == {tools[i] : i \in 1..Len(tools)}

\* The text of the completion the reply is made of: the second one when a
\* second call was made, the first one otherwise.
FinalText ==
    IF Len(sent) = 2 THEN final_response.content ELSE response.content

\* C1: chat never raises.  No exception leaves chat, and a turn in which a
\* step failed (either backend call, a malformed response, the dispatcher,
\* the prefix step) returns exactly the fixed apology.
C1_NeverRaises ==
    /\ pc # "escaped"
    /\ (pc = "done" /\ exc # "none") => ret = ApologyText

\* A turn whose dispatcher raised has returned the apology.
C1_Witness ==
    /\ pc = "done"
    /\ exc = "JSONDecodeError"
    /\ dispatched # << >>
    /\ ret = ApologyText

\* C2: whatever the backend did, the string chat returns starts with
\* "Sonya:" - on the no-tool path, the tool path and the error path.
C2_AlwaysPrefixed ==
    pc = "done" => (IsStr(ret) /\ StartsWith(ret, PersonaPrefix))

\* A tool-path turn whose final text came without the prefix.
C2_Witness ==
    /\ pc = "done"
    /\ exc = "none"
    /\ Len(sent) = 2
    /\ final_content = T_Sonya
    /\ ret = PersonaLead \o T_Sonya

\* C3: the prefix is applied exactly once.  A final text that starts with
\* "Sonya:" is returned unchanged, any other is returned after "Sonya: ";
\* what chat returns starts with a doubled prefix only if the model's own
\* text did.
C3_PrefixOnce ==
    (pc = "done" /\ exc = "none") =>
        /\ IF StartsWith(FinalText, PersonaPrefix)
           THEN ret = FinalText
           ELSE ret = PersonaLead \o FinalText
        /\ StartsWith(ret, PersonaLead \o PersonaPrefix) => ret = FinalText

\* A turn whose final text already had the prefix, returned as it was.
C3_Witness ==
    /\ pc = "done"
    /\ exc = "none"
    /\ FinalText = T_SonyaSonya
    /\ ret = T_SonyaSonya

\* C4: for a completion with requests r1..rN, the i-th dispatcher
\* invocation answers request ri: it raises or returns what dispatching ri
\* alone would, so that the i-th tool-result message carries ri's call id,
\* ri's tool name and the payload of ri's arguments.
C4_ResultsFollowRequests ==
    \A k \in 1..Len(dispatched) :
        LET alone == handle_tool_call(
                        [tool_calls |-> <<response.tool_calls[k]>>], hashSalt)
        IN  /\ dispatched[k].tool_call = response.tool_calls[k]
            /\ dispatched[k].raised = alone.raised
            /\ alone.raised = "none"
                   => dispatched[k].response_data = alone.value[1]

\* C5: one chat call makes at most two backend calls, the second only
\* after the first returned tool calls and the loop over them ended;
\* exactly one when the first completion has no tool calls (no dispatch,
\* its text is the final text), exactly two when it has some and no step
\* failed; tool calls in the second completion start nothing.
C5_AtMostTwoCalls ==
    /\ Len(sent) <= 2
    /\ Len(sent) = 2 =>
            /\ response.kind = "ok"
            /\ response.tool_calls # << >>
            /\ idx > Len(response.tool_calls)
    /\ (pc = "done" /\ response.kind = "ok" /\ response.tool_calls = << >>)
            => /\ Len(sent) = 1
               /\ dispatched = << >>
               /\ final_content = response.content
    /\ (pc = "done" /\ exc = "none" /\ response.tool_calls # << >>)
            => Len(sent) = 2

\* A turn ended after a second completion that itself carried a tool call.
C5_Witness ==
    /\ pc = "done"
    /\ exc = "none"
    /\ final_response.tool_calls # << >>
    /\ Len(sent) = 2

\* C6: a request for a tool outside the registry is a no-op: the loop
\* iteration for it raises nothing and appends no tool-result message, and
\* a batch of such requests leaves the sequence as it was before the loop.
C6_UnknownToolNoOp ==
    /\ \A k \in 1..Len(dispatched) :
        LET r == dispatched[k].tool_call
        IN  (r.name \notin KnownTools /\ r.arguments.kind = "object")
                => /\ dispatched[k].raised = "none"
                   /\ dispatched[k].response_data = NoResponseData
    /\ (pc = "resolving_tools"
            /\ \A k \in 1..Len(response.tool_calls) :
                    /\ response.tool_calls[k].name \notin KnownTools
                    /\ response.tool_calls[k].arguments.kind = "object")
        => messages = Append(BuildMessages(history, message),
                             ToolCallMessage(response))

\* C7: a request for one of the three tools whose decoded arguments omit a
\* required parameter still gets a tool-result message: the dispatcher
\* raises nothing for it.  (The request is the one the dispatcher reads,
\* the first of the batch.)
C7_MissingArgumentTolerated ==
    \A k \in 1..Len(dispatched) :
        LET r == response.tool_calls[1]
        IN  (/\ r.name \in KnownTools
             /\ r.arguments.kind = "object"
             /\ ~(RequiredParams(r.name) \subseteq DOMAIN r.arguments.value))
                => /\ dispatched[k].raised = "none"
                   /\ dispatched[k].response_data # NoResponseData

\* C8: when the arguments of the request the dispatcher decodes are no
\* JSON, the dispatcher raises JSONDecodeError on its first invocation and
\* the turn ends there: no second backend call is made, no tool-result
\* message is appended, and chat returns the fixed apology.
C8_DecodeFailurePropagates ==
    (dispatched # << >>
        /\ response.tool_calls[1].arguments.kind = "undecodable") =>
        /\ Len(dispatched) = 1
        /\ dispatched[1].raised = "JSONDecodeError"
        /\ exc = "JSONDecodeError"
        /\ pc \in {"except", "done"}
        /\ Len(sent) = 1
        /\ messages = Append(BuildMessages(history, message),
                             ToolCallMessage(response))
        /\ pc = "done" => ret = ApologyText

\* A turn ended by undecodable arguments of a tool outside the registry.
C8_Witness ==
    /\ pc = "done"
    /\ dispatched # << >>
    /\ response.tool_calls[1].arguments.kind = "undecodable"
    /\ response.tool_calls[1].name = "cancel_flight"
    /\ ret = ApologyText

\* C9: the dispatcher invocations of a call come from the requests of that
\* call's own first completion: at most one per request, the k-th for the
\* k-th request, every result carrying a call id of this call; the turns of
\* the history are replayed as plain user and assistant messages (role and
\* content, nothing else), and a call whose completion has no tool calls
\* dispatches nothing, whatever the history.
C9_NoReplayOfToolCalls ==
    /\ Len(dispatched) <= Len(response.tool_calls)
    /\ \A k \in 1..Len(dispatched) :
        /\ dispatched[k].tool_call = response.tool_calls[k]
        /\ dispatched[k].response_data # NoResponseData =>
              \E j \in 1..Len(response.tool_calls) :
                  response.tool_calls[j].id
                      = dispatched[k].response_data.tool_call_id
    /\ \A q \in 1..Len(sent) :
        \A j \in 2..(2 * Len(history) + 1) :
            /\ DOMAIN sent[q].messages[j] = {"role", "content"}
            /\ sent[q].messages[j].role \in {"user", "assistant"}

\* A later call, its history not empty, that dispatched its own requests.
C9_Witness ==
    /\ Len(history) = 2
    /\ pc = "done"
    /\ Len(dispatched) = 2
    /\ Len(sent) = 2

\* C10: the sequence sent on the first backend call is the system message,
\* then a user and an assistant message for each turn of the history in
\* order, then the current user message: 2 * len(history) + 2 messages.
C10_FirstCallMessages ==
    Len(sent) >= 1 =>
        LET m == sent[1].messages
            n == Len(history)
        IN  /\ Len(m) = 2 * n + 2
            /\ m[1] = [role |-> "system", content |-> system_message]
            /\ \A k \in 1..n :
                /\ m[2 * k] = [role |-> "user", content |-> history[k][1]]
                /\ m[2 * k + 1]
                       = [role |-> "assistant", content |-> history[k][2]]
            /\ m[2 * n + 2] = [role |-> "user", content |-> message]

\* A first call made with a history of two turns that differ.
C10_Witness ==
    /\ Len(sent) >= 1
    /\ Len(history) = 2
    /\ history[1][2] # history[2][2]

(***************************************************************************)
(* Properties of the tools.                                                *)
(***************************************************************************)
\* The number of whitespace-separated tokens of s, counted by where a token
\* starts: a character that is no whitespace, at the start of s or right
\* after whitespace.
TokenCount(s) ==
    Cardinality({i \in 1..Len(s) :
                    /\ ~IsSpace(s[i])
                    /\ (i = 1 \/ IsSpace(s[i - 1]))})

HasChar(s, c) == \E i \in 1..Len(s) : s[i] = c

\* C11: validate_info is total on strings: it returns, with name_valid =
\* the name has at least two whitespace-separated tokens, email_valid = the
\* email contains "@" and contains ".", all_valid = both; all_valid is
\* never true when one of the two flags is false.
C11_ValidateTotal ==
    \A k \in 1..Len(out) :
        out[k].tool = "validate_info" =>
            LET r == out[k].validation
                v == r.value
            IN  /\ r.raised = "none"
                /\ v.name_valid = (TokenCount(args.name) >= 2)
                /\ v.email_valid
                       = (HasChar(args.email, "@") /\ HasChar(args.email, "."))
                /\ v.all_valid = (v.name_valid /\ v.email_valid)
                /\ (~v.name_valid \/ ~v.email_valid) => ~v.all_valid

\* A validation of a two-token name, padded with whitespace, and an email
\* with an "@" and no ".".
C11_Witness ==
    /\ Len(out) >= 1
    /\ out[1].tool = "validate_info"
    /\ args.name = <<"a", "\t", "a">>
    /\ args.email = <<"a", "@">>
    /\ out[1].validation.value.name_valid
    /\ ~out[1].validation.value.email_valid

\* a and b are the same up to letter case, b being in lower case.
SameIgnoringCase(a, b) ==
    /\ Len(a) = Len(b)
    /\ \A i \in 1..Len(a) :
        \/ a[i] = b[i]
        \/ \E j \in 1..Len(LowerLetters) :
            /\ b[i] = LowerLetters[j]
            /\ a[i] = UpperLetters[j]

\* The price the startup catalog holds for a city, whatever its case.
PriceOf(city) ==
    IF SameIgnoringCase(city, K_london) THEN P_799
    ELSE IF SameIgnoringCase(city, K_paris) THEN P_899
    ELSE IF SameIgnoringCase(city, K_tokyo) THEN P_1400
    ELSE IF SameIgnoringCase(city, K_rome) THEN P_929
    ELSE PriceNotAvailable

\* C12: get_ticket_price is total on strings and case-insensitive: it
\* returns the catalog price when the city is london, paris, tokyo or rome
\* in any letter case and "Price not available" otherwise, the upper-case
\* and lower-case spellings of the city get the same result, and the
\* catalog is as it was at startup after the lookup.
C12_PriceOfCaseInsensitive ==
    \A k \in 1..Len(out) :
        out[k].tool = "get_ticket_price" =>
            LET r == out[k].price
                upper == [i \in 1..Len(args.city) |-> UpperChar(args.city[i])]
                lower == [i \in 1..Len(args.city) |-> LowerChar(args.city[i])]
            IN  /\ r.raised = "none"
                /\ r.value = PriceOf(args.city)
                /\ get_ticket_price(upper) = r
                /\ get_ticket_price(lower) = r
                /\ catalog = TICKET_PRICES

\* A lookup of rome in mixed case.
C12_Witness ==
    /\ Len(out) = 1
    /\ out[1].tool = "get_ticket_price"
    /\ args.city = T_RoMe
    /\ out[1].price.value = P_929

\* The opening of a booking payload up to the digits of the reference.
T_successKey ==
    <<"{","\"","s","u","c","c","e","s","s","\"",":"," ","t","r","u","e",","," ",
    "\"","b","o","o","k","i","n","g","_","r","e","f","e","r","e","n","c","e",
    "\"",":"," ","\"","S","I","M","-">>

\* The value of a decimal digit, -1 for any other character.
DigitValue(c) ==
    IF \E i \in 1..Len(Digits) : Digits[i] = c
    THEN (CHOOSE i \in 1..Len(Digits) : Digits[i] = c) - 1
    ELSE -1

\* The characters of a booking payload after "SIM-", up to and including
\* the character after the fifth.
ReferenceTail(content) ==
    SubSeq(content, Len(T_successKey) + 1, Len(T_successKey) + 6)

\* C13: the reference of a book_flight dispatch is "SIM-" followed by
\* exactly five decimal digits, whose value is abs(hash(city + name +
\* email)) mod 100000, and two dispatches with the same arguments in one
\* process yield the same reference.
C13_BookingReference ==
    \A k \in Booked :
        LET r == out[k].response
            content == r.value[1].content
            tail == ReferenceTail(content)
        IN  /\ r.raised = "none"
            /\ StartsWith(content, T_successKey)
            /\ \A i \in 1..5 : DigitValue(tail[i]) >= 0
            /\ tail[6] = "\""
            /\ DigitValue(tail[1]) * 10000 + DigitValue(tail[2]) * 1000
                   + DigitValue(tail[3]) * 100 + DigitValue(tail[4]) * 10
                   + DigitValue(tail[5])
                 = Abs(PyHash(hashSalt,
                              args.city \o args.name \o args.email)) % 100000
            /\ \A j \in Booked :
                ReferenceTail(out[j].response.value[1].content) = tail

\* Two bookings of the same details, the hash of which is negative and the
\* reference of which needs its zero padding.
C13_Witness ==
    /\ Cardinality(Booked) = 2
    /\ PyHash(hashSalt, args.city \o args.name \o args.email) < 0
    /\ \A k \in Booked :
        ReferenceTail(out[k].response.value[1].content)[1] = "0"

\* The text of a price payload around its two string values, as json.dumps
\* writes it with its default separators.
D_open_city ==
    <<"{","\"","d","e","s","t","i","n","a","t","i","o","n","_","c","i","t","y",
    "\"",":"," ","\"">>

D_price == <<"\"",","," ","\"","p","r","i","c","e","\"",":"," ","\"">>

D_close == <<"\"","}">>

\* The price payload for Paris without insignificant whitespace.
T_ParisPayloadCompact ==
    <<"{","\"","d","e","s","t","i","n","a","t","i","o","n","_","c","i","t","y",
    "\"",":","\"","P","a","r","i","s","\"",",","\"","p","r","i","c","e","\"",
    ":","\"","$","8","9","9","\"","}">>

\* A JSON text without the spaces that stand outside its strings (the
\* strings at hand hold no escaped quote).
Compact(text) ==
    LET kept == {i \in 1..Len(text) :
                    \/ text[i] # " "
                    \/ Cardinality({j \in 1..(i - 1) : text[j] = "\""}) % 2
                           = 1}
        at(n) == CHOOSE i \in kept :
                    Cardinality({j \in kept : j <= i}) = n
    IN  [n \in 1..Cardinality(kept) |-> text[at(n)]]

\* C14: a get_ticket_price dispatch for the city c returns a tool-result
\* message whose payload is the object of destination_city, c as given,
\* and price, the price of c, together with c as the observed city; Paris
\* gives {"destination_city":"Paris","price":"$899"}, and a city that is
\* not in the catalog gets the sentinel price in a normal result.
C14_PriceDispatch ==
    \A k \in 1..Len(out) :
        out[k].tool = "get_ticket_price" =>
            LET r == out[k].response
                m == r.value[1]
            IN  /\ r.raised = "none"
                /\ r.value[2] = args.city
                /\ m.role = "tool"
                /\ m.name = "get_ticket_price"
                /\ m.tool_call_id = <<0, 1>>
                /\ m.content = D_open_city \o args.city \o D_price
                                   \o PriceOf(args.city) \o D_close
                /\ args.city = T_Paris =>
                       Compact(m.content) = T_ParisPayloadCompact

\* A dispatch for Paris, and one for a city that is in the catalog only
\* once lower-cased.
C14_Witness ==
    /\ Len(out) = 1
    /\ out[1].tool = "get_ticket_price"
    /\ out[1].response.raised = "none"
    /\ args.city \in {T_Paris, T_RoMe}

\* C17: a book_flight dispatch with string arguments always yields a tool
\* result with success true and a reference: nothing is validated, whether
\* validate_info accepts the name and email or not, whether the city is in
\* the catalog or not, whether validate_info was dispatched before or not.
C17_BookingNeverRefuses ==
    \A k \in Booked :
        LET r == out[k].response
        IN  /\ r.raised = "none"
            /\ r.value[1].role = "tool"
            /\ r.value[1].name = "book_flight"
            /\ StartsWith(r.value[1].content, T_successKey)

\* A booking of a city outside the catalog for a single-token name and an
\* email without "@", with no validate_info dispatched before it.
C17_Witness ==
    /\ Len(out) = 1
    /\ out[1].tool = "book_flight"
    /\ out[1].response.raised = "none"
    /\ args.city = T_oz
    /\ PriceOf(args.city) = PriceNotAvailable
    /\ args.name = <<"a">>
    /\ args.email = <<"a", "." >>
    /\ ~validate_info(args.name, args.email).value.all_valid

(***************************************************************************)
(* Properties of the tool path and of the state a turn leaves behind.      *)
(***************************************************************************)
\* The tool-result messages of the dispatches, in dispatch order.
RECURSIVE ToolResults(_)
ToolResults(ds) ==
    IF ds = << >> THEN << >>
    ELSE (IF ds[1].response_data # NoResponseData
          THEN <<ds[1].response_data>> ELSE << >>)
            \o ToolResults(Tail(ds))

\* C15: the second backend call is made only after every request of the
\* batch has been dispatched; its messages are those of the first call,
\* then the assistant message with the tool calls, then the tool-result
\* messages in dispatch order; the first call offers the three tools with
\* tool_choice auto, the second offers no tools; the text of the second
\* completion is the final text.
C15_SecondCallAfterDispatches ==
    /\ Len(sent) >= 1 =>
        /\ sent[1].tools = <<"get_ticket_price", "book_flight",
                             "validate_info">>
        /\ sent[1].tool_choice = "auto"
    /\ Len(sent) = 2 =>
        /\ Len(dispatched) = Len(response.tool_calls)
        /\ \A k \in 1..Len(dispatched) :
            /\ dispatched[k].tool_call = response.tool_calls[k]
            /\ dispatched[k].raised = "none"
        /\ sent[2].messages
               = sent[1].messages
                   \o <<[role |-> "assistant", content |-> response.content,
                         tool_calls |-> response.tool_calls]>>
                   \o ToolResults(dispatched)
        /\ sent[2].tools = << >>
        /\ sent[2].tool_choice = "unset"
        /\ pc = "responding" => final_content = final_response.content
        /\ (pc = "done" /\ exc = "none") =>
               ret \in {final_response.content,
                        PersonaLead \o final_response.content}

\* A turn that dispatched a batch of two, made the second call with the
\* two results and returned its text.
C15_Witness ==
    /\ pc = "done"
    /\ exc = "none"
    /\ Len(sent) = 2
    /\ Len(dispatched) = 2
    /\ Len(ToolResults(dispatched)) = 2
    /\ Len(sent[2].messages) = Len(sent[1].messages) + 3

C18_SharedStateUnchanged ==
    /\ [](catalog = TICKET_PRICES /\ registry = tools)
    /\ [][pc # "done" => history' = history]_vars

\* A call on a history of a successful turn, which looked up a city the
\* catalog lacks and ended in the apology.
C18_Witness ==
    /\ pc = "done"
    /\ ret = ApologyText
    /\ Len(history) >= 1
    /\ history[1][2] # ApologyText
    /\ Len(dispatched) >= 1
    /\ dispatched[1].city = T_oz

\* The text with the persona prefix, added unless it is there.
WithPersona(text) ==
    IF StartsWith(text, PersonaPrefix) THEN text ELSE PersonaLead \o text

\* The string a chat call returns, as a function of the completions the
\* backend gave and of the per-process hash seed alone.
ReplyOf(first, second, salt) ==
    IF first.kind # "ok" THEN ApologyText
    ELSE IF first.tool_calls = << >>
    THEN IF first.content = None THEN ApologyText
         ELSE WithPersona(first.content)
    ELSE IF handle_tool_call(first, salt).raised # "none" THEN ApologyText
    ELSE IF second.kind # "ok" \/ second.content = None THEN ApologyText
    ELSE WithPersona(second.content)

\* C19: a chat call depends on nothing but its arguments and the answers
\* of the backend: what it sends is made of (message, history) and of the
\* startup tools, the tool results are those a fresh process would give,
\* what it returns is a function of the backend's completions, and the
\* module state is as at startup, whatever turns came before, apologies
\* included.
C19_StatelessTurn ==
    /\ catalog = TICKET_PRICES
    /\ registry = tools
    /\ Len(sent) >= 1 =>
        sent[1] = [model |-> MODEL,
                   messages |-> BuildMessages(history, message),
                   tools |-> tools, tool_choice |-> "auto"]
    /\ \A k \in 1..Len(dispatched) :
        LET first == response.tool_calls[1]
            d == dispatched[k]
        IN  (d.raised = "none" /\ first.name = "get_ticket_price") =>
                d.response_data.content
                    = D_open_city \o d.city \o D_price \o PriceOf(d.city)
                        \o D_close
    /\ pc = "done" => ret = ReplyOf(response, final_response, hashSalt)

\* A call after an apology turn that dispatched the same price request
\* twice and returned the text of the backend.
C19_Witness ==
    /\ pc = "done"
    /\ Len(history) >= 1
    /\ history[1][2] = ApologyText
    /\ Len(dispatched) = 2
    /\ response.tool_calls[1].name = "get_ticket_price"
    /\ dispatched[2].raised = "none"
    /\ dispatched[2].city = T_Paris
    /\ ret # ApologyText

\* C20: a chat call that has begun ends and returns a string; the loop runs
\* at most once per request of the batch; Awaiting Model is entered only
\* from idle, once per call, and at most two backend calls are made; a
\* final text that is absent, on the path without tools or on the tool
\* path, ends the turn in the apology.
C20_EveryCallReturns ==
    /\ (pc = "awaiting_model") ~> (pc = "done" /\ IsStr(ret))
    /\ [][pc' = "awaiting_model" => pc = "idle"]_vars
    /\ [](Len(dispatched) <= Len(LoopCalls(response)) /\ Len(sent) <= 2)
    /\ []((pc = "done" /\ response.kind = "ok" /\ FinalText = None)
             => ret = ApologyText)

\* A turn on the tool path whose second completion has no content, ended
\* in the apology.
C20_Witness ==
    /\ pc = "done"
    /\ Len(sent) = 2
    /\ final_response.kind = "ok"
    /\ final_response.content = None
    /\ ret = ApologyText

=============================================================================
